---- MODULE Spec2Model ----
(***************************************************************************)
(* Model of the Algo-Trading repository.                                   *)
(*                                                                         *)
(*   scripts/historical_data_fetch.py : the chunked backfill loop with its *)
(*       retrying fetch, the merge of the chunks and the final save.       *)
(*   scripts/backtest.py : SmaTargetStopStrategy (next / notify_order).    *)
(*                                                                         *)
(* The two scripts are separate programs; `program` says which one runs,  *)
(* "summary" being backtest.py's report after cerebro.run() has returned.  *)
(* Spec is the program with the notifications the broker sends; StraySpec  *)
(* adds a Completed notification nobody waits for; FairSpec is the         *)
(* strategy alone under weak fairness of its steps.                        *)
(* Dates are day offsets from datetime(start_year, 1, 1); strftime and the *)
(* remote's reading of a date string are the calendar conversions.         *)
(* Prices are integers and the fractional parameters are per mille, so     *)
(* p >= entry * (1 + target) is p * 1000 >= entry * (1000 + target).       *)
(***************************************************************************)
EXTENDS Integers, Sequences, FiniteSets, TLC

VARIABLES
    program,        \* "backfill" | "backtest" | "summary" (backtest.py's report)
    \* ---- historical_data_fetch.py
    pc,             \* position of the script
    current_date,   \* datetime, as a day offset
    end_date,       \* datetime, as a day offset
    next_date,
    from_date,      \* strftime string, as <<y, m, d>>
    to_date,
    attempt,        \* the for-loop index of fetch_historical_data
    data,           \* what fetch_historical_data returned
    all_data,       \* list of frames
    missing_dates,  \* list of (from_date, to_date)
    first_date,     \* None or a date string
    last_date,
    hdf_file,       \* the persisted artifact: None or [name, rows]
    missing_log,    \* lines of h_data/missing_data.log
    chunks,         \* history: the chunks generated, with the calls made for each
    response,       \* fetch_historical_data's local: the last response
    raised,         \* whether the last getCandleData call raised
    \* ---- backtest.py
    order,          \* self.order: None or the pending order
    entry_price,    \* self.entry_price: None or a price
    position,       \* self.position.size
    target,         \* self.p.target, per mille
    stop_loss,      \* self.p.stop_loss, per mille
    broker,         \* orders the broker holds, oldest first
    lastbar,        \* history: what the last call of next() saw and did
    open_fill,      \* history: the fill price of the order that opened the position
    \* ---- backtest.py, after cerebro.run()
    trade_analyzer, \* the TradeAnalyzer's analysis
    summary         \* None or the numbers of the summary table

bfvars == <<pc, current_date, end_date, next_date, from_date, to_date, attempt,
            data, all_data, missing_dates, first_date, last_date, hdf_file,
            missing_log, chunks, response, raised>>
stvars == <<order, entry_price, position, target, stop_loss, broker, lastbar, open_fill>>
smvars == <<trade_analyzer, summary>>
vars == <<program, bfvars, stvars, smvars>>

\* ------------------------------------------------------------------ bounds

\* The master span is at most this many days long (the script's own span,
\* 2005-01-01 to 2025-01-01, is 7305 days = 243 chunks and 15 days).
MaxSpanDays == 65

\* ------------------------------------------------------- program constants

start_year == 2005
ChunkDays == 30
MaxAttempts == 3
DefaultTarget == 3
DefaultStopLoss == 1
\* time.sleep(5) and time.sleep(0.4), in tenths of a second.
RetrySleep == 50
RateSleep == 4

\* Python's None, and a value that is not None.
None == <<>>
Some(x) == <<x>>

\* ------------------------------------------------------------- the calendar

IsLeap(y) == (y % 4 = 0 /\ y % 100 # 0) \/ y % 400 = 0

DaysInYear(y) == IF IsLeap(y) THEN 366 ELSE 365

DaysInMonth(y, m) ==
    IF m = 2 THEN (IF IsLeap(y) THEN 29 ELSE 28)
    ELSE IF m \in {4, 6, 9, 11} THEN 30 ELSE 31

RECURSIVE YearOf(_, _)
YearOf(y, d) == IF d < DaysInYear(y) THEN <<y, d>> ELSE YearOf(y + 1, d - DaysInYear(y))

RECURSIVE MonthOf(_, _, _)
MonthOf(y, m, d) ==
    IF d < DaysInMonth(y, m) THEN <<y, m, d + 1>> ELSE MonthOf(y, m + 1, d - DaysInMonth(y, m))

\* datetime.strftime("%Y-%m-%d") of the datetime d days after start_year-01-01.
Strftime(d) == LET yd == YearOf(start_year, d) IN MonthOf(yd[1], 1, yd[2])

RECURSIVE DaysBeforeYear(_)
DaysBeforeYear(y) == IF y <= start_year THEN 0 ELSE DaysInYear(y - 1) + DaysBeforeYear(y - 1)

RECURSIVE DaysBeforeMonth(_, _)
DaysBeforeMonth(y, m) == IF m <= 1 THEN 0 ELSE DaysInMonth(y, m - 1) + DaysBeforeMonth(y, m - 1)

\* The remote's reading of a date string: the day offset of "y-m-d".
DayNumber(s) == DaysBeforeYear(s[1]) + DaysBeforeMonth(s[1], s[2]) + s[3] - 1

\* ---------------------------------------------------------- the remote source

\* 2005-01-01 was a Saturday: the market is closed on day offsets 0, 1 mod 7.
TradingDay(d) == d % 7 \notin {0, 1}

\* One raw record of the remote: [DateTime, Open, High, Low, Close, Volume], the
\* DateTime string "y-m-dT09:15:00+05:30" as its parts.
RawRecord(d) == << <<Strftime(d), "T", "09:15:00", "+05:30">>, 1000 + d, 1002 + d, 999 + d, 1001 + d, 10 >>

RECURSIVE RawRange(_, _)
RawRange(lo, hi) ==
    IF lo > hi THEN <<>>
    ELSE (IF TradingDay(lo) THEN <<RawRecord(lo)>> ELSE <<>>) \o RawRange(lo + 1, hi)

\* Every candle inside the window "fromdate 09:00" .. "todate 15:30".
Candles(param) == RawRange(DayNumber(param.fromdate), DayNumber(param.todate))

\* The batch with a seventh field in its first record.
Malformed(rows) == <<Append(rows[1], "x")>> \o Tail(rows)

Outcomes == {"data", "malformed", "empty", "nokey", "null", "exception"}

\* smartApi.getCandleData(historicParam), for an outcome that raises nothing.
GetCandleData(param, outcome) ==
    CASE outcome = "data"      -> [null |-> FALSE, keys |-> {"status", "data"}, data |-> Candles(param)]
      [] outcome = "malformed" -> [null |-> FALSE, keys |-> {"status", "data"}, data |-> Malformed(Candles(param))]
      [] outcome = "empty"     -> [null |-> FALSE, keys |-> {"status", "data"}, data |-> <<>>]
      [] outcome = "nokey"     -> [null |-> FALSE, keys |-> {"status", "message"}, data |-> <<>>]
      [] OTHER                 -> [null |-> TRUE, keys |-> {}, data |-> <<>>]

\* ------------------------------------------------------ fetch_historical_data

HistoricParam(f, t) == [fromdate |-> f, todate |-> t]

\* Mutant: a response whose data field is empty passes.
HasDataField(resp) == ~resp.null /\ resp.keys # {} /\ "data" \in resp.keys

\* response and "data" in response and response["data"]
HasData(resp) ==
    /\ ~resp.null /\ resp.keys # {}
    /\ "data" \in resp.keys
    /\ resp.data # <<>>

\* ------------------------------------------------------------ normalization

RECURSIVE MaxFields(_)
MaxFields(rows) ==
    IF rows = <<>> THEN 0
    ELSE LET m == MaxFields(Tail(rows)) IN IF Len(rows[1]) > m THEN Len(rows[1]) ELSE m

\* pd.DataFrame(data, columns=[six names]) raises unless the widest record has
\* six fields.
NormalizeRaises(rows) == MaxFields(rows) # 6

\* One row: DateTime split at "T", the time split from its "+HH:MM" suffix, and
\* the columns Date, Time, Timezone, Open, High, Low, Close kept.
NormalizeRow(r) ==
    LET dt   == r[1]
        rest == SubSeq(dt, 3, Len(dt))
    IN [Date |-> dt[1], Time |-> rest[1],
        Timezone |-> IF Len(rest) >= 2 THEN rest[2] ELSE "",
        Open |-> r[2], High |-> r[3], Low |-> r[4], Close |-> r[5]]

Normalize(rows) == [i \in 1..Len(rows) |-> NormalizeRow(rows[i])]

RECURSIVE Concat(_)
Concat(frames) == IF frames = <<>> THEN <<>> ELSE frames[1] \o Concat(Tail(frames))

\* ------------------------------------------------------------ the main loop

NextDate(cur) == cur + ChunkDays

\* Mutant: the loop steps one day past the chunk's end.
AdvanceSkipsDay(nxt) == nxt + 1

\* Line 95: the value current_date takes at the end of an iteration.
Advance(nxt) == nxt

\* Mutant: the range is recorded once more than it failed.
MissingAppendTwice(m, f, t) == Append(Append(m, <<f, t>>), <<f, t>>)

\* Line 92.
MissingAppend(m, f, t) == Append(m, <<f, t>>)

\* Mutant: only the first attempt's data is handed back.
ReturnedFirstOnly(resp, att) == [none |-> att > 0, rows |-> resp.data]

\* Line 63: what fetch_historical_data hands back on a successful attempt.
Returned(resp, att) == [none |-> FALSE, rows |-> resp.data]

NoData == [none |-> TRUE, rows |-> <<>>]

\* Mutant: every fetched chunk takes the first date.
FirstDateOverwritten(first, from) == Some(from)

\* Lines 82-83.
FirstDate(first, from) == IF first = None THEN Some(from) ELSE first

\* The local `response` before line 61 has assigned it.
Unbound == [null |-> TRUE, keys |-> {}, data |-> <<>>]

\* Lines 73-78: the loop test holds; the chunk's dates are formatted and the
\* fetch starts.
BeginChunk ==
    /\ program = "backfill" /\ pc = "loop"
    /\ current_date < end_date
    /\ next_date' = NextDate(current_date)
    /\ from_date' = Strftime(current_date)
    /\ to_date' = Strftime(next_date')
    /\ attempt' = 0
    /\ pc' = "fetch"
    /\ chunks' = Append(chunks, [cur |-> current_date, nxt |-> next_date',
                                 from |-> from_date', to |-> to_date',
                                 calls |-> <<>>, log |-> <<>>])
    /\ response' = Unbound
    /\ raised' = FALSE
    /\ UNCHANGED <<program, current_date, end_date, data, all_data, missing_dates,
                   first_date, last_date, hdf_file, missing_log, stvars, smvars>>

\* The events of a chunk's log: a call of the remote, a sleep of some length.
Call == [ev |-> "call", tenths |-> 0]
Sleep(t) == [ev |-> "sleep", tenths |-> t]

\* The call of line 61 and, after a failure, the sleep of line 68.
LogCall(ok) ==
    [chunks EXCEPT ![Len(chunks)].calls = Append(@, ok),
                   ![Len(chunks)].log = @ \o (IF ok THEN <<Call>> ELSE <<Call, Sleep(RetrySleep)>>)]

\* The sleep of line 94.
LogPause == [chunks EXCEPT ![Len(chunks)].log = Append(@, Sleep(RateSleep))]

\* Lines 59-71: one attempt.  A response with data is returned at once; any
\* other response, or an exception, is logged and followed by sleep(5), and
\* after the third the function returns None.
Attempt(outcome) ==
    /\ program = "backfill" /\ pc = "fetch"
    /\ attempt < MaxAttempts
    /\ LET ok == outcome # "exception"
                 /\ HasData(GetCandleData(HistoricParam(from_date, to_date), outcome))
       IN /\ chunks' = LogCall(ok)
          /\ raised' = (outcome = "exception")
          /\ response' = IF outcome = "exception" THEN response
                         ELSE GetCandleData(HistoricParam(from_date, to_date), outcome)
          /\ IF ok
             THEN /\ data' = Returned(GetCandleData(HistoricParam(from_date, to_date), outcome), attempt)
                  /\ pc' = "merge"
                  /\ attempt' = attempt
             ELSE /\ attempt' = attempt + 1
                  /\ IF attempt + 1 = MaxAttempts
                     THEN data' = NoData /\ pc' = "merge"
                     ELSE data' = data /\ pc' = "fetch"
    /\ UNCHANGED <<program, current_date, end_date, next_date, from_date, to_date,
                   all_data, missing_dates, first_date, last_date, hdf_file,
                   missing_log, stvars, smvars>>

\* Lines 81-95: the chunk is merged or recorded as missing, then sleep(0.4)
\* and the loop moves on.  A batch that the DataFrame constructor refuses
\* raises out of the script.
Merge ==
    /\ program = "backfill" /\ pc = "merge"
    /\ IF ~data.none /\ data.rows # <<>>
       THEN /\ first_date' = FirstDate(first_date, from_date)
            /\ last_date' = Some(to_date)
            /\ missing_dates' = missing_dates
            /\ IF NormalizeRaises(data.rows)
               THEN /\ pc' = "aborted"
                    /\ all_data' = all_data
                    /\ current_date' = current_date
                    /\ chunks' = chunks
               ELSE /\ pc' = "loop"
                    /\ all_data' = Append(all_data, Normalize(data.rows))
                    /\ current_date' = Advance(next_date)
                    /\ chunks' = LogPause
       ELSE /\ missing_dates' = MissingAppend(missing_dates, from_date, to_date)
            /\ pc' = "loop"
            /\ current_date' = Advance(next_date)
            /\ chunks' = LogPause
            /\ UNCHANGED <<first_date, last_date, all_data>>
    /\ response' = Unbound
    /\ raised' = FALSE
    /\ UNCHANGED <<program, end_date, next_date, from_date, to_date, attempt, data,
                   hdf_file, missing_log, stvars, smvars>>

LogLine(m) == <<"Missing data:", m[1], "to", m[2]>>

\* Lines 97-111: the loop test fails; the merged frame is written once and the
\* missing ranges are written to the log, opened with mode "w".
Save ==
    /\ program = "backfill" /\ pc = "loop"
    /\ ~(current_date < end_date)
    /\ hdf_file' = IF all_data # <<>> /\ first_date # None /\ last_date # None
                   THEN Some([name |-> <<"NIFTY", "ONE_MINUTE", first_date[1], last_date[1]>>,
                              rows |-> Concat(all_data)])
                   ELSE hdf_file
    /\ missing_log' = IF missing_dates # <<>>
                      THEN [i \in 1..Len(missing_dates) |-> LogLine(missing_dates[i])]
                      ELSE missing_log
    /\ pc' = "done"
    /\ UNCHANGED <<program, current_date, end_date, next_date, from_date, to_date,
                   attempt, data, all_data, missing_dates, first_date, last_date,
                   chunks, response, raised, stvars, smvars>>

BackfillNext == BeginChunk \/ (\E o \in Outcomes : Attempt(o)) \/ Merge \/ Save

\* An earlier run's log.
OldLogs == {<<>>, <<LogLine(<<Strftime(0), Strftime(ChunkDays)>>)>>}

BackfillInit ==
    /\ pc = "loop"
    /\ current_date = 0
    /\ end_date \in 1..MaxSpanDays
    /\ next_date = 0
    /\ from_date = Strftime(0)
    /\ to_date = Strftime(0)
    /\ attempt = 0
    /\ data = NoData
    /\ all_data = <<>>
    /\ missing_dates = <<>>
    /\ first_date = None
    /\ last_date = None
    /\ hdf_file = None
    /\ missing_log \in OldLogs
    /\ chunks = <<>>
    /\ response = Unbound
    /\ raised = FALSE

\* ------------------------------------------------- SmaTargetStopStrategy

\* Closes and fill prices, around 1000.
PriceSteps == 6
Prices == 997..(997 + PriceSteps)

\* The crossover indicator's values.
Crossovers == {-1, 0, 1}

\* Parameters a caller may pass; the second stop_loss is wider than the target.
Targets == {DefaultTarget}
StopLosses == {DefaultStopLoss, -5}

\* Mutant: the bar does not look at the pending order.
PendingIgnored(o) == FALSE

\* if self.order:
Pending(o) == o # None

\* if not self.position:
Flat(pos) == pos = 0

\* Mutant: the signals are taken the wrong way round.
EntryReversed(pos, x) ==
    IF Flat(pos) /\ x > 0 THEN <<[side |-> "sell", log |-> ""]>>
    ELSE IF Flat(pos) /\ x < 0 THEN <<[side |-> "buy", log |-> ""]>>
    ELSE <<>>

\* Lines 83-91: the entry the bar submits when there is no position.
Entry(pos, x) ==
    IF Flat(pos) /\ x > 0 THEN <<[side |-> "buy", log |-> ""]>>
    ELSE IF Flat(pos) /\ x < 0 THEN <<[side |-> "sell", log |-> ""]>>
    ELSE <<>>

\* Mutant: the stop is tested before the target.
LongExitStopFirst(pos, entry, p, tgt, stp) ==
    IF pos > 0 /\ entry # None
    THEN IF p * 1000 <= entry[1] * (1000 - stp)
         THEN <<[side |-> "sell", log |-> "Long stop loss hit"]>>
         ELSE IF p * 1000 >= entry[1] * (1000 + tgt)
              THEN <<[side |-> "sell", log |-> "Long target reached"]>>
              ELSE <<>>
    ELSE <<>>

\* Lines 94-102.
LongExit(pos, entry, p, tgt, stp) ==
    IF pos > 0 /\ entry # None
    THEN IF p * 1000 >= entry[1] * (1000 + tgt)
         THEN <<[side |-> "sell", log |-> "Long target reached"]>>
         ELSE IF p * 1000 <= entry[1] * (1000 - stp)
              THEN <<[side |-> "sell", log |-> "Long stop loss hit"]>>
              ELSE <<>>
    ELSE <<>>

\* Mutant: the long position's inequalities, not reversed.
ShortExitNotMirrored(pos, entry, p, tgt, stp) ==
    IF pos < 0 /\ entry # None
    THEN IF p * 1000 >= entry[1] * (1000 + tgt)
         THEN <<[side |-> "buy", log |-> "Short target reached"]>>
         ELSE IF p * 1000 <= entry[1] * (1000 - stp)
              THEN <<[side |-> "buy", log |-> "Short stop loss hit"]>>
              ELSE <<>>
    ELSE <<>>

\* Lines 105-113.
ShortExit(pos, entry, p, tgt, stp) ==
    IF pos < 0 /\ entry # None
    THEN IF p * 1000 <= entry[1] * (1000 - tgt)
         THEN <<[side |-> "buy", log |-> "Short target reached"]>>
         ELSE IF p * 1000 >= entry[1] * (1000 + stp)
              THEN <<[side |-> "buy", log |-> "Short stop loss hit"]>>
              ELSE <<>>
    ELSE <<>>

\* The orders one call of next() submits, in order.
Submitted(o, pos, entry, p, x, tgt, stp) ==
    IF Pending(o) THEN <<>>
    ELSE IF Entry(pos, x) # <<>> THEN Entry(pos, x)
    ELSE LongExit(pos, entry, p, tgt, stp) \o ShortExit(pos, entry, p, tgt, stp)

\* self.buy() / self.sell(): the order as the broker takes it.
BrokerOrder(s) == [side |-> s.side, status |-> "Submitted"]

\* Lines 71-113: one bar.
next(p, x) ==
    /\ program = "backtest"
    /\ LET subs == Submitted(order, position, entry_price, p, x, target, stop_loss)
       IN /\ order' = IF subs = <<>> THEN order ELSE Some(subs[Len(subs)].side)
          /\ broker' = broker \o [i \in 1..Len(subs) |-> BrokerOrder(subs[i])]
          /\ lastbar' = Some([close |-> p, crossover |-> x, order |-> order,
                              position |-> position, entry_price |-> entry_price,
                              submitted |-> subs])
    /\ UNCHANGED <<program, bfvars, smvars, entry_price, position, target, stop_loss, open_fill>>

\* The size of the position after an order of side s is executed (stake 1).
Executed(pos, s) == IF s = "buy" THEN pos + 1 ELSE pos - 1

\* Mutant: a price once recorded is kept.
OnCompletedKeepsOld(price) == IF entry_price = None THEN Some(price) ELSE entry_price

\* Lines 54-62, for a Completed order.
OnCompleted(price) == Some(price)

\* The broker accepts its oldest order; notify_order sees a status that is not
\* Completed and does nothing.
notify_accepted ==
    /\ program = "backtest"
    /\ broker # <<>> /\ broker[1].status = "Submitted"
    /\ broker' = [broker EXCEPT ![1].status = "Accepted"]
    /\ UNCHANGED <<program, bfvars, smvars, order, entry_price, position, target, stop_loss, lastbar, open_fill>>

\* The broker executes its oldest order at a price and notifies Completed:
\* lines 54-62 set entry_price and clear self.order.
notify_completed(price) ==
    /\ program = "backtest"
    /\ broker # <<>>
    /\ broker' = Tail(broker)
    /\ position' = Executed(position, broker[1].side)
    /\ entry_price' = OnCompleted(price)
    /\ open_fill' = IF position = 0 THEN Some(price)
                    ELSE IF Executed(position, broker[1].side) = 0 THEN None
                    ELSE open_fill
    /\ order' = None
    /\ UNCHANGED <<program, bfvars, smvars, target, stop_loss, lastbar>>

\* The broker drops its oldest order (Rejected, Margin, Canceled, Expired);
\* notify_order's test of line 54 fails and nothing is changed.
notify_rejected ==
    /\ program = "backtest"
    /\ broker # <<>>
    /\ broker' = Tail(broker)
    /\ UNCHANGED <<program, bfvars, smvars, order, entry_price, position, target, stop_loss, lastbar, open_fill>>

StrategyNext ==
    \/ \E p \in Prices, x \in Crossovers : next(p, x)
    \/ notify_accepted
    \/ (\E price \in Prices : notify_completed(price))
    \/ notify_rejected

\* Lines 38-47, with the parameters of the run.
StrategyInit ==
    /\ order = None
    /\ entry_price = None
    /\ position = 0
    /\ target \in Targets
    /\ stop_loss \in StopLosses
    /\ broker = <<>>
    /\ lastbar = None
    /\ open_fill = None

\* The script that is not running.
StrategyIdle ==
    /\ order = None
    /\ entry_price = None
    /\ position = 0
    /\ target = DefaultTarget
    /\ stop_loss = DefaultStopLoss
    /\ broker = <<>>
    /\ lastbar = None
    /\ open_fill = None

BackfillIdle ==
    /\ pc = "idle"
    /\ current_date = 0
    /\ end_date = 0
    /\ next_date = 0
    /\ from_date = Strftime(0)
    /\ to_date = Strftime(0)
    /\ attempt = 0
    /\ data = NoData
    /\ all_data = <<>>
    /\ missing_dates = <<>>
    /\ first_date = None
    /\ last_date = None
    /\ hdf_file = None
    /\ missing_log = <<>>
    /\ chunks = <<>>
    /\ response = Unbound
    /\ raised = FALSE

\* ------------------------------------------------------ the trade summary

\* trade_analyzer.get(k, {}).get(..., 0): the analysis as a dictionary from
\* the counts it holds to their values; a count it does not hold reads 0.
Get(d, k) == IF k \in DOMAIN d THEN d[k] ELSE 0

\* a / b in Python: a ratio, or ZeroDivisionError.
Divide(a, b) ==
    IF b = 0 THEN [raised |-> TRUE, num |-> 0, den |-> 1]
    ELSE [raised |-> FALSE, num |-> a, den |-> b]

Times(q, k) == [q EXCEPT !.num = @ * k]

\* Mutant: the division is not guarded.
WinProbabilityUnguarded(winning, total) == Times(Divide(winning, total), 100)

\* Line 190.
WinProbability(winning, total) ==
    IF total > 0 THEN Times(Divide(winning, total), 100)
    ELSE [raised |-> FALSE, num |-> 0, den |-> 1]

\* Lines 184-190, after cerebro.run() has returned.
Summarize ==
    /\ program = "summary" /\ summary = None
    /\ LET total_trades   == Get(trade_analyzer, "closed")
           winning_trades == Get(trade_analyzer, "won")
       IN summary' = Some([total_trades |-> total_trades,
                           long_trades |-> Get(trade_analyzer, "long"),
                           short_trades |-> Get(trade_analyzer, "short"),
                           winning_trades |-> winning_trades,
                           losing_trades |-> Get(trade_analyzer, "lost"),
                           win_probability |-> WinProbability(winning_trades, total_trades)])
    /\ UNCHANGED <<program, bfvars, stvars, trade_analyzer>>

\* A run closes at most this many trades.
MaxTrades == 3

\* What the TradeAnalyzer reports: nothing but an open count when no trade
\* was closed, else the closed trades split by direction and by outcome.
Analyses ==
    {<<>>} \cup
    {("closed" :> n) @@ ("long" :> l) @@ ("short" :> (n - l)) @@ ("won" :> w) @@ ("lost" :> (n - w)) :
        <<n, l, w>> \in {t \in (1..MaxTrades) \X (0..MaxTrades) \X (0..MaxTrades) :
                            t[2] <= t[1] /\ t[3] <= t[1]}}

SummaryInit ==
    /\ trade_analyzer \in Analyses
    /\ summary = None

SummaryIdle ==
    /\ trade_analyzer = <<>>
    /\ summary = None

Init ==
    \/ program = "backfill" /\ BackfillInit /\ StrategyIdle /\ SummaryIdle
    \/ program = "backtest" /\ BackfillIdle /\ StrategyInit /\ SummaryIdle
    \/ program = "summary" /\ BackfillIdle /\ StrategyIdle /\ SummaryInit

Next == BackfillNext \/ StrategyNext \/ Summarize

Spec == Init /\ [][Next]_vars

\* ---------------------------------------------- a fill nobody is waiting for

\* notify_order is called with a Completed order while self.order is None
\* (a notification delivered again, or of an order the strategy does not
\* hold): lines 54-62 run as for any Completed order.
notify_stray(price) ==
    /\ program = "backtest"
    /\ order = None /\ broker = <<>>
    /\ entry_price' = OnCompleted(price)
    /\ order' = None
    /\ UNCHANGED <<program, bfvars, smvars, position, target, stop_loss, broker,
                   lastbar, open_fill>>

\* The strategy alone, bars and notifications never ceasing while the data
\* feed runs.
FairInit == Init /\ program = "backtest"

FairSpec == FairInit /\ [][StrategyNext]_vars /\ WF_vars(StrategyNext)

StrayNext == Next \/ (\E price \in Prices : notify_stray(price))

StraySpec == Init /\ [][StrayNext]_vars

\* ------------------------------------------------------------------ claims

Backfill == program = "backfill"
Backtest == program = "backtest"

\* The chunks whose iteration has ended.
NFinished == IF pc \in {"loop", "done"} THEN Len(chunks) ELSE Len(chunks) - 1

Exhausted(c) == c.calls = <<FALSE, FALSE, FALSE>>
Succeeded(c) == \E k \in 1..Len(c.calls) : c.calls[k]

ChunkLength(c) == DayNumber(c.to) - DayNumber(c.from)

\* C1: the chunks the loop generates start at the span start, each starts
\* where the one before ended, none is longer than 30 days, and when the loop
\* has ended they reach the span end.
C1_ChunksContiguousAndCover ==
    Backfill =>
        /\ chunks # <<>> => chunks[1].from = <<start_year, 1, 1>>
        /\ \A i \in 2..Len(chunks) : chunks[i].from = chunks[i - 1].to
        /\ \A i \in 1..Len(chunks) : ChunkLength(chunks[i]) > 0 /\ ChunkLength(chunks[i]) <= ChunkDays
        /\ pc = "done" => chunks # <<>> /\ DayNumber(chunks[Len(chunks)].to) >= end_date

C1_Witness == Backfill /\ pc = "done" /\ Len(chunks) >= 3

\* C2: no chunk's to-date lies after the end of the master span.
C2_NoChunkPastSpanEnd ==
    Backfill => \A i \in 1..Len(chunks) : DayNumber(chunks[i].to) <= end_date

\* C3: the timestamps of the merged series are strictly increasing (no candle
\* twice), the remote returning every candle of each requested window.
C3_MergedStrictlyIncreasing ==
    Backfill =>
        LET rows == Concat(all_data)
        IN \A i \in 1..(Len(rows) - 1) : DayNumber(rows[i].Date) < DayNumber(rows[i + 1].Date)

Count(seq, x) == Cardinality({i \in 1..Len(seq) : seq[i] = x})

\* C4: a chunk whose three attempts all failed is in missing_dates exactly
\* once, has put no frame into all_data, was called three times and is not
\* generated again, and the loop has moved on to the date it ends at.
C4_ExhaustedChunkMissingOnce ==
    Backfill =>
        \A i \in 1..NFinished :
            Exhausted(chunks[i]) =>
                /\ Count(missing_dates, <<chunks[i].from, chunks[i].to>>) = 1
                /\ Len(all_data) = Cardinality({j \in 1..NFinished : ~Exhausted(chunks[j])})
                /\ \A j \in 1..Len(all_data) : all_data[j] # <<>>
                /\ \A j \in 1..Len(chunks) : j # i => chunks[j].from # chunks[i].from
                /\ Len(chunks[i].calls) = MaxAttempts
                /\ pc # "aborted" => current_date >= chunks[i].nxt

C4_Witness ==
    /\ Backfill /\ pc = "done" /\ Len(chunks) >= 2
    /\ Exhausted(chunks[1]) /\ ~Exhausted(chunks[2])

RECURSIVE ExpectedFrames(_)
ExpectedFrames(cs) ==
    IF cs = <<>> THEN <<>>
    ELSE (IF Succeeded(cs[1])
          THEN <<Normalize(Candles(HistoricParam(cs[1].from, cs[1].to)))>>
          ELSE <<>>) \o ExpectedFrames(Tail(cs))

RECURSIVE ExpectedMissing(_)
ExpectedMissing(cs) ==
    IF cs = <<>> THEN <<>>
    ELSE (IF Succeeded(cs[1]) THEN <<>> ELSE << <<cs[1].from, cs[1].to>> >>)
         \o ExpectedMissing(Tail(cs))

SucceededIndexes(cs) == {i \in 1..Len(cs) : Succeeded(cs[i])}
Min(S) == CHOOSE x \in S : \A y \in S : x <= y
Max(S) == CHOOSE x \in S : \A y \in S : x >= y

\* C5: what a run has merged, recorded as missing and taken as first and last
\* date depends only on which chunks were fetched, not on the attempt that
\* fetched them: a chunk fetched on attempt 3 leaves what one fetched on
\* attempt 1 leaves.
C5_RetryTransparent ==
    Backfill /\ pc # "aborted" =>
        LET cs == SubSeq(chunks, 1, NFinished)
            ok == SucceededIndexes(cs)
        IN /\ all_data = ExpectedFrames(cs)
           /\ missing_dates = ExpectedMissing(cs)
           /\ first_date = IF ok = {} THEN None ELSE Some(cs[Min(ok)].from)
           /\ last_date = IF ok = {} THEN None ELSE Some(cs[Max(ok)].to)

C5_Witness ==
    /\ Backfill /\ pc = "done" /\ Len(chunks) >= 2
    /\ chunks[1].calls = <<FALSE, FALSE, TRUE>>
    /\ chunks[2].calls = <<TRUE>>

\* The script has a step to take: the loop test, an attempt or the merge.
Running == pc = "loop" \/ (pc = "fetch" /\ attempt < MaxAttempts) \/ pc = "merge"

\* C6: the run stops nowhere but after the final save.
C6_RunAlwaysCompletes ==
    Backfill /\ ~Running => pc = "done"

\* C7: a batch that cannot be normalized is handled as a failed fetch: from the
\* merge step the run goes back to fetching the chunk or on to the next chunk
\* with the range recorded as missing.
C7_MalformedBatchIsFailedFetch ==
    [][(Backfill /\ pc = "merge" /\ ~data.none /\ NormalizeRaises(data.rows))
        => \/ pc' = "fetch"
           \/ pc' = "loop" /\ Count(missing_dates', <<from_date, to_date>>) = 1]_vars

\* C8: the broker holds at most one order, the position is flat, one long or
\* one short, no bar submits two orders, and a bar that found an order pending
\* submitted none.
C8_OneOrderOnePosition ==
    Backtest =>
        /\ Len(broker) <= 1
        /\ position \in {-1, 0, 1}
        /\ lastbar # None =>
              /\ Len(lastbar[1].submitted) <= 1
              /\ lastbar[1].order # None => lastbar[1].submitted = <<>>

\* A bar at the target of a long position whose exit order is still pending.
C8_Witness ==
    /\ Backtest /\ lastbar # None
    /\ lastbar[1].order # None /\ lastbar[1].position = 1
    /\ lastbar[1].entry_price # None
    /\ lastbar[1].close * 1000 >= lastbar[1].entry_price[1] * (1000 + target)

\* C9: a bar with close p for a long position with an entry price and no
\* pending order submits one Sell through the target path if
\* p >= entry * (1 + target), else one Sell through the stop path if
\* p <= entry * (1 - stop_loss), else nothing.
C9_LongExitRule ==
    (Backtest /\ lastbar # None /\ lastbar[1].position > 0
        /\ lastbar[1].entry_price # None /\ lastbar[1].order = None) =>
        LET p == lastbar[1].close
            e == lastbar[1].entry_price[1]
        IN lastbar[1].submitted =
              IF p * 1000 >= e * (1000 + target)
              THEN <<[side |-> "sell", log |-> "Long target reached"]>>
              ELSE IF p * 1000 <= e * (1000 - stop_loss)
                   THEN <<[side |-> "sell", log |-> "Long stop loss hit"]>>
                   ELSE <<>>

\* A bar that meets the target and the stop threshold at once.
C9_Witness ==
    /\ Backtest /\ lastbar # None /\ lastbar[1].position > 0
    /\ lastbar[1].entry_price # None /\ lastbar[1].order = None
    /\ lastbar[1].close * 1000 >= lastbar[1].entry_price[1] * (1000 + target)
    /\ lastbar[1].close * 1000 <= lastbar[1].entry_price[1] * (1000 - stop_loss)
    /\ lastbar[1].submitted = <<[side |-> "sell", log |-> "Long target reached"]>>

\* C10: with no position and no pending order, entry_price is unset.
C10_FlatHasNoEntryPrice ==
    Backtest /\ position = 0 /\ order = None => entry_price = None

\* C11: a fill notification that arrives while no order is pending stops the
\* engine: no step taken while no order is pending changes entry_price.
C11_StrayFillChangesNothing ==
    [][(Backtest /\ order = None /\ broker = <<>>) => entry_price' = entry_price]_vars

\* C12: the save step keeps every line an earlier run wrote to the log and
\* adds one line per missing range.
C12_LogAppendOnly ==
    [][(Backfill /\ pc = "loop" /\ pc' = "done" /\ missing_dates # <<>>)
        => /\ Len(missing_log') = Len(missing_log) + Len(missing_dates)
           /\ \A i \in 1..Len(missing_log) : missing_log'[i] = missing_log[i]]_vars

\* C13: the win probability is computed without a division error; it is 0
\* when no trade was closed and winning / total * 100 otherwise.
C13_WinProbability ==
    (program = "summary" /\ summary # None) =>
        LET t  == Get(trade_analyzer, "closed")
            w  == Get(trade_analyzer, "won")
            wp == summary[1].win_probability
        IN /\ ~wp.raised
           /\ t = 0 => wp.num = 0
           /\ t > 0 => wp.num * t = w * 100 * wp.den

C13_Witness ==
    /\ program = "summary" /\ summary # None
    /\ summary[1].total_trades = 0
    /\ summary[1].win_probability = [raised |-> FALSE, num |-> 0, den |-> 1]

\* C14: a chunk gets at least one and at most 3 calls; a call counts as a
\* success exactly when it returned a response that is not null and has a
\* non-empty data field; a success is the chunk's last call and its data is
\* what the fetch returns; without one the fetch returns None after 3 calls.
C14_FetchAttempts ==
    Backfill =>
        /\ \A i \in 1..Len(chunks) :
              LET c == chunks[i]
              IN /\ Len(c.calls) <= MaxAttempts
                 /\ \A k \in 1..(Len(c.calls) - 1) : ~c.calls[k]
                 /\ (i < Len(chunks) \/ pc # "fetch") =>
                        /\ Len(c.calls) >= 1
                        /\ c.calls[Len(c.calls)] \/ Len(c.calls) = MaxAttempts
        /\ pc = "fetch" =>
              /\ Len(chunks[Len(chunks)].calls) = attempt
              /\ attempt < MaxAttempts
        /\ pc = "merge" =>
              LET c  == chunks[Len(chunks)]
                  ok == c.calls[Len(c.calls)]
              IN /\ ok <=> (~raised /\ ~response.null /\ "data" \in response.keys
                                    /\ response.data # <<>>)
                 /\ data = IF ok THEN [none |-> FALSE, rows |-> response.data] ELSE NoData

C14_Witness ==
    /\ Backfill /\ pc = "merge"
    /\ chunks[Len(chunks)].calls = <<FALSE, TRUE>>
    /\ data.rows = response.data /\ data.rows # <<>>

RECURSIVE ClaimedAttempts(_)
ClaimedAttempts(n) ==
    IF n <= 1 THEN <<Call>> ELSE ClaimedAttempts(n - 1) \o <<Sleep(RetrySleep), Call>>

\* C15: a finished chunk's calls and sleeps are: its calls with one 5-second
\* sleep between each two, then one 0.4-second sleep.
C15_WaitsBetweenCalls ==
    Backfill =>
        \A i \in 1..NFinished :
            chunks[i].log = ClaimedAttempts(Len(chunks[i].calls)) \o <<Sleep(RateSleep)>>

RECURSIVE Flatten(_)
Flatten(frames) ==
    IF frames = <<>> THEN <<>> ELSE Flatten(SubSeq(frames, 1, Len(frames) - 1)) \o frames[Len(frames)]

\* C16: nothing is persisted before the end of the run; the artifact then
\* written holds the normalized data of the fetched chunks, in chunk order, and
\* is named by the from-date of the first and the to-date of the last fetched
\* chunk; with no fetched chunk nothing is written.
C16_MergedArtifact ==
    Backfill =>
        /\ pc # "done" => hdf_file = None
        /\ pc = "done" =>
              LET ok == SucceededIndexes(chunks)
              IN hdf_file =
                    IF ok = {} THEN None
                    ELSE Some([name |-> <<"NIFTY", "ONE_MINUTE",
                                          chunks[Min(ok)].from, chunks[Max(ok)].to>>,
                               rows |-> Flatten(ExpectedFrames(chunks))])

C16_Witness ==
    /\ Backfill /\ pc = "done" /\ Len(chunks) = 3
    /\ ~Succeeded(chunks[1]) /\ Succeeded(chunks[2]) /\ ~Succeeded(chunks[3])
    /\ hdf_file # None

\* C17: a bar that finds the machine flat with no pending order submits one
\* Buy on a CrossUp, one Sell on a CrossDown and nothing without a crossover,
\* and the bar itself leaves the position as it was.
C17_FlatEntryRule ==
    [][(Backtest /\ position = 0 /\ order = None /\ lastbar' # lastbar) =>
          /\ position' = position
          /\ lastbar'[1].submitted =
                IF lastbar'[1].crossover > 0 THEN <<[side |-> "buy", log |-> ""]>>
                ELSE IF lastbar'[1].crossover < 0 THEN <<[side |-> "sell", log |-> ""]>>
                ELSE <<>>
          /\ order' = IF lastbar'[1].crossover > 0 THEN Some("buy")
                      ELSE IF lastbar'[1].crossover < 0 THEN Some("sell")
                      ELSE None]_vars

\* A flat bar without a crossover whose close is far from a left-over
\* entry_price.
C17_Witness ==
    /\ Backtest /\ lastbar # None
    /\ lastbar[1].position = 0 /\ lastbar[1].order = None
    /\ lastbar[1].crossover = 0 /\ lastbar[1].entry_price # None
    /\ lastbar[1].close * 1000 >= lastbar[1].entry_price[1] * (1000 + target)
    /\ lastbar[1].submitted = <<>> /\ position = 0 /\ order = None

\* C18: a bar with close p for a short position with an entry price and no
\* pending order submits one Buy through the target path if
\* p <= entry * (1 - target), else one Buy through the stop path if
\* p >= entry * (1 + stop_loss), else nothing; and whatever the crossover, a
\* bar for an open position submits nothing but an exit.
C18_ShortExitRule ==
    (Backtest /\ lastbar # None /\ lastbar[1].order = None) =>
        LET b == lastbar[1]
        IN /\ (b.position < 0 /\ b.entry_price # None) =>
                 b.submitted =
                    IF b.close * 1000 <= b.entry_price[1] * (1000 - target)
                    THEN <<[side |-> "buy", log |-> "Short target reached"]>>
                    ELSE IF b.close * 1000 >= b.entry_price[1] * (1000 + stop_loss)
                         THEN <<[side |-> "buy", log |-> "Short stop loss hit"]>>
                         ELSE <<>>
           /\ b.position # 0 =>
                 \A i \in 1..Len(b.submitted) :
                    /\ b.submitted[i].log # ""
                    /\ b.submitted[i].side = IF b.position > 0 THEN "sell" ELSE "buy"

\* A CrossDown bar at the stop of a short position.
C18_Witness ==
    /\ Backtest /\ lastbar # None /\ lastbar[1].order = None
    /\ lastbar[1].position < 0 /\ lastbar[1].entry_price # None
    /\ lastbar[1].crossover < 0
    /\ lastbar[1].submitted = <<[side |-> "buy", log |-> "Short stop loss hit"]>>

\* C19: an order that the broker has dropped without filling it does not hold
\* the marker for ever: the marker is eventually cleared.
C19_DroppedOrderCleared ==
    (Backtest /\ order # None /\ broker = <<>>) ~> (order = None)

\* C20: while a position is open, entry_price is the fill price of the order
\* that opened it.
C20_EntryPriceIsOpeningFill ==
    (Backtest /\ position # 0) => (open_fill # None /\ entry_price = open_fill)

\* A position opened by a bar that still saw another price left over from an
\* earlier trade.
C20_Witness ==
    /\ Backtest /\ position # 0 /\ order = None /\ lastbar # None
    /\ lastbar[1].position = 0 /\ lastbar[1].entry_price # None
    /\ lastbar[1].entry_price # entry_price
    /\ entry_price = open_fill
====
